---- MODULE Spec2Model ----
(***************************************************************************)
(* gfp-doctor, lib/examine-package.js: the package.json rule registry      *)
(* (rulesConf), the exported examine function and its 14 predicates.       *)
(*                                                                         *)
(* JavaScript values are modelled as follows.                              *)
(*   - A string is the sequence of its characters, so that indexOf and     *)
(*     includes are real substring searches and a semver range is parsed   *)
(*     from its text.                                                      *)
(*   - An object (devDependencies, scripts) is a function from the keys it *)
(*     holds to their values; a lookup of a key it lacks is undefined.     *)
(*   - What a predicate produces is one of the strings "true", "false",    *)
(*     "undefined" (no return statement reached) and "TypeError" (the      *)
(*     predicate threw).                                                   *)
(* Dependency and script values are the non-empty strings npm writes, so a *)
(* key is truthy exactly when the object holds it.                         *)
(***************************************************************************)
EXTENDS Integers, Sequences, FiniteSets, TLC

VARIABLES
    rulesConf,  \* the module-level registry object, shared by all invocations
    json,       \* the manifest the last invocation found (or did not find)
    ret,        \* how the last invocation ended
    calls,      \* the predicates the last invocation invoked, in order
    pc,         \* predicate harness: "input" or "applied"
    out         \* predicate harness: what each predicate produced for json

vars ==
    <<rulesConf, json, ret, calls, pc, out>>

----------------------------------------------------------------------------
(* Bounds *)

\* a generated document holds at most MaxKeys dependency and script entries
MaxKeys ==
    3

\* version components of the comparator's reference universe are 0..MaxPart
MaxPart ==
    9

----------------------------------------------------------------------------
(* Strings *)

TRUE_ ==
    "true"

FALSE_ ==
    "false"

Undefined ==
    "undefined"

TypeError ==
    "TypeError"

\* "stash.mrgreen.zone"
N_stash ==
    <<"s", "t", "a", "s", "h", ".", "m", "r", "g", "r", "e", "e", "n", ".", "z", "o", "n", "e">>

\* "ssh://"
N_ssh ==
    <<"s", "s", "h", ":", "/", "/">>

\* "gfp-doctor"
N_gfpDoctor ==
    <<"g", "f", "p", "-", "d", "o", "c", "t", "o", "r">>

\* "1.0.0"
V_100 ==
    <<"1", ".", "0", ".", "0">>

\* "2.9.9"
V_299 ==
    <<"2", ".", "9", ".", "9">>

\* "1.6.9"
V_169 ==
    <<"1", ".", "6", ".", "9">>

\* "1.0.9"
V_109 ==
    <<"1", ".", "0", ".", "9">>

\* String.prototype.indexOf: the first position (from 0) where needle occurs
\* in s, or -1
indexOf(s, needle) ==
    LET hits == {i \in 0..(Len(s) - Len(needle)) :
                    \A j \in 1..Len(needle) : s[i + j] = needle[j]}
    IN  IF hits = {} THEN -1
        ELSE CHOOSE i \in hits : \A k \in hits : i <= k

\* String.prototype.includes
includes(s, needle) ==
    indexOf(s, needle) # -1

\* json.devDependencies[key] and json.scripts[key] as a condition: the object
\* holds the key and its value is not the empty string
Truthy(obj, key) ==
    key \in DOMAIN obj /\ Len(obj[key]) > 0

----------------------------------------------------------------------------
(* The version comparator (the semver package) *)

Digits ==
    <<"0", "1", "2", "3", "4", "5", "6", "7", "8", "9">>

IsDigit(c) ==
    \E d \in 1..Len(Digits) : Digits[d] = c

DigitVal(c) ==
    (CHOOSE d \in 1..Len(Digits) : Digits[d] = c) - 1

\* the number a non-empty run of digits denotes
RECURSIVE ParseNum(_)
ParseNum(s) ==
    IF Len(s) = 0 THEN 0
    ELSE 10 * ParseNum(SubSeq(s, 1, Len(s) - 1)) + DigitVal(s[Len(s)])

\* the positions of "." in s
Dots(s) ==
    {i \in 1..Len(s) : s[i] = "."}

\* major.minor.patch, or <<>> when s is not of that form
ParseVersion(s) ==
    LET dots == Dots(s)
    IN  IF Cardinality(dots) # 2 \/ \E i \in 1..Len(s) : ~(IsDigit(s[i]) \/ s[i] = ".")
        THEN <<>>
        ELSE LET d1 == CHOOSE i \in dots : \A k \in dots : i <= k
                 d2 == CHOOSE i \in dots : \A k \in dots : i >= k
             IN  IF d1 = 1 \/ d2 = d1 + 1 \/ d2 = Len(s) THEN <<>>
                 ELSE <<ParseNum(SubSeq(s, 1, d1 - 1)),
                        ParseNum(SubSeq(s, d1 + 1, d2 - 1)),
                        ParseNum(SubSeq(s, d2 + 1, Len(s)))>>

\* semver precedence of two versions
VLt(a, b) ==
    \/ a[1] < b[1]
    \/ a[1] = b[1] /\ a[2] < b[2]
    \/ a[1] = b[1] /\ a[2] = b[2] /\ a[3] < b[3]

VLe(a, b) ==
    a = b \/ VLt(a, b)

\* the upper end (exclusive) of a caret range from v
CaretHi(v) ==
    IF v[1] > 0 THEN <<v[1] + 1, 0, 0>>
    ELSE IF v[2] > 0 THEN <<0, v[2] + 1, 0>>
    ELSE <<0, 0, v[3] + 1>>

\* a range string as [valid, lo, hi): "^x.y.z", "~x.y.z" and "x.y.z"
ParseRange(s) ==
    LET op   == IF Len(s) > 0 /\ s[1] \in {"^", "~"} THEN s[1] ELSE ""
        body == IF op = "" THEN s ELSE SubSeq(s, 2, Len(s))
        v    == ParseVersion(body)
    IN  IF v = <<>> THEN [valid |-> FALSE, lo |-> <<0, 0, 0>>, hi |-> <<0, 0, 0>>]
        ELSE [valid |-> TRUE,
              lo    |-> v,
              hi    |-> IF op = "^" THEN CaretHi(v)
                        ELSE IF op = "~" THEN <<v[1], v[2] + 1, 0>>
                        ELSE <<v[1], v[2], v[3] + 1>>]

\* semver.satisfies(version, range): an invalid range satisfies nothing
satisfies(version, range) ==
    LET v == ParseVersion(version)
        r == ParseRange(range)
    IN  IF r.valid /\ VLe(r.lo, v) /\ VLt(v, r.hi) THEN TRUE_ ELSE FALSE_

\* semver.ltr(version, range): version is below the range's lowest
\* comparator; an invalid range is a TypeError
ltr(version, range) ==
    LET v == ParseVersion(version)
        r == ParseRange(range)
    IN  IF ~r.valid THEN TypeError
        ELSE IF VLt(v, r.lo) THEN TRUE_ ELSE FALSE_

----------------------------------------------------------------------------
(* The 14 predicates.  json is [exists, hasDev, dev, hasScripts, scripts]:  *)
(* hasDev says that json.devDependencies is an object, dev is that object.  *)

notUsingStashGfpEslintConfig(j) ==
    IF j.hasDev /\ ~Truthy(j.dev, "gfp-eslint-config") THEN TRUE_
    ELSE Undefined

missingEslintConfigGfp(j) ==
    IF j.hasDev /\ Truthy(j.dev, "eslint-config-gfp") THEN TRUE_
    ELSE Undefined

\* the second condition indexes json.devDependencies without a guard: with no
\* devDependencies that is a property read on undefined
notUsingStashAngularModuleNoDeps(j) ==
    IF j.hasDev /\ ~Truthy(j.dev, "angular-module-no-deps") THEN TRUE_
    ELSE IF ~j.hasDev THEN TypeError
    ELSE IF indexOf(j.dev["angular-module-no-deps"], N_stash) # -1 THEN FALSE_
    ELSE TRUE_

usingDocumentationJs(j) ==
    IF j.hasDev /\ Truthy(j.dev, "documentation") THEN TRUE_
    ELSE Undefined

hasNpmLintScript(j) ==
    IF j.hasScripts /\ Truthy(j.scripts, "lint") THEN TRUE_
    ELSE Undefined

\* variant: the phantomjs-prebuilt test comes first
shouldUsePhantomjsPrebuilt_prebuiltFirst(j) ==
    IF j.hasDev
    THEN IF Truthy(j.dev, "phantomjs-prebuilt") THEN TRUE_
         ELSE IF Truthy(j.dev, "phantomjs") THEN FALSE_
         ELSE Undefined
    ELSE Undefined

shouldUsePhantomjsPrebuilt(j) ==
    IF j.hasDev
    THEN IF Truthy(j.dev, "phantomjs") THEN FALSE_
         ELSE IF Truthy(j.dev, "phantomjs-prebuilt") THEN TRUE_
         ELSE Undefined
    ELSE Undefined

shouldUsePhantomjsLauncher1(j) ==
    IF j.hasDev /\ Truthy(j.dev, "karma-phantomjs-launcher")
    THEN satisfies(V_100, j.dev["karma-phantomjs-launcher"])
    ELSE Undefined

shouldUsePrepushHooks(j) ==
    IF j.hasDev /\ Truthy(j.dev, "husky")
    THEN IF j.hasScripts /\ Truthy(j.scripts, "prepush") THEN TRUE_
         ELSE Undefined
    ELSE Undefined

\* variant: no trailing return true
shouldUsePublicRequirePolyfill_noDefault(j) ==
    IF j.hasDev /\ Truthy(j.dev, "require-polyfill")
    THEN IF includes(j.dev["require-polyfill"], N_ssh) THEN FALSE_
         ELSE TRUE_
    ELSE Undefined

shouldUsePublicRequirePolyfill(j) ==
    IF j.hasDev /\ Truthy(j.dev, "require-polyfill")
    THEN IF includes(j.dev["require-polyfill"], N_ssh) THEN FALSE_
         ELSE TRUE_
    ELSE TRUE_

\* variant: semver.satisfies in place of semver.ltr
shouldUseEslintConfigGfp300_satisfies(j) ==
    IF j.hasDev /\ Truthy(j.dev, "eslint-config-gfp")
    THEN satisfies(V_299, j.dev["eslint-config-gfp"])
    ELSE Undefined

shouldUseEslintConfigGfp300(j) ==
    IF j.hasDev /\ Truthy(j.dev, "eslint-config-gfp")
    THEN ltr(V_299, j.dev["eslint-config-gfp"])
    ELSE Undefined

shouldRunGfpDoctorPostInstall(j) ==
    IF /\ j.hasScripts
       /\ Truthy(j.scripts, "postinstall")
       /\ includes(j.scripts["postinstall"], N_gfpDoctor)
    THEN TRUE_
    ELSE Undefined

shouldUseKarma170(j) ==
    IF j.hasDev /\ Truthy(j.dev, "karma")
    THEN ltr(V_169, j.dev["karma"])
    ELSE Undefined

shouldUseKarmaCoverage110(j) ==
    IF j.hasDev /\ Truthy(j.dev, "karma-coverage")
    THEN ltr(V_109, j.dev["karma-coverage"])
    ELSE Undefined

shouldUseKarmaJasmine110(j) ==
    IF j.hasDev /\ Truthy(j.dev, "karma-jasmine")
    THEN ltr(V_109, j.dev["karma-jasmine"])
    ELSE Undefined

\* rule.fn(json, options): the call through the fn reference a rule holds
CallFn(fn, j) ==
    CASE fn = "notUsingStashGfpEslintConfig"     -> notUsingStashGfpEslintConfig(j)
      [] fn = "missingEslintConfigGfp"           -> missingEslintConfigGfp(j)
      [] fn = "notUsingStashAngularModuleNoDeps" -> notUsingStashAngularModuleNoDeps(j)
      [] fn = "usingDocumentationJs"             -> usingDocumentationJs(j)
      [] fn = "hasNpmLintScript"                 -> hasNpmLintScript(j)
      [] fn = "shouldUsePhantomjsPrebuilt"       -> shouldUsePhantomjsPrebuilt(j)
      [] fn = "shouldUsePhantomjsLauncher1"      -> shouldUsePhantomjsLauncher1(j)
      [] fn = "shouldUsePrepushHooks"            -> shouldUsePrepushHooks(j)
      [] fn = "shouldUsePublicRequirePolyfill"   -> shouldUsePublicRequirePolyfill(j)
      [] fn = "shouldUseEslintConfigGfp300"      -> shouldUseEslintConfigGfp300(j)
      [] fn = "shouldRunGfpDoctorPostInstall"    -> shouldRunGfpDoctorPostInstall(j)
      [] fn = "shouldUseKarma170"                -> shouldUseKarma170(j)
      [] fn = "shouldUseKarmaCoverage110"        -> shouldUseKarmaCoverage110(j)
      [] fn = "shouldUseKarmaJasmine110"         -> shouldUseKarmaJasmine110(j)

----------------------------------------------------------------------------
(* The registry and the runner *)

\* rulesConf.rules: the fn of each rule, in declaration order
RuleFns ==
    << "notUsingStashGfpEslintConfig",
       "missingEslintConfigGfp",
       "notUsingStashAngularModuleNoDeps",
       "usingDocumentationJs",
       "hasNpmLintScript",
       "shouldUsePhantomjsPrebuilt",
       "shouldUsePhantomjsLauncher1",
       "shouldUsePrepushHooks",
       "shouldUsePublicRequirePolyfill",
       "shouldUseEslintConfigGfp300",
       "shouldRunGfpDoctorPostInstall",
       "shouldUseKarma170",
       "shouldUseKarmaCoverage110",
       "shouldUseKarmaJasmine110" >>

\* the rulesConf literal: no skipped property, no rule has an outcome
InitialRulesConf ==
    [name    |-> "package.json",
     skipped |-> Undefined,
     rules   |-> [i \in 1..Len(RuleFns) |-> [fn |-> RuleFns[i], passed |-> Undefined]]]

\* rules-util.js addSkipped: flags the set as skipped and forces every
\* rule's outcome to absent; invokes nothing
addSkipped(conf) ==
    [conf EXCEPT !.skipped = TRUE_,
                 !.rules = [i \in 1..Len(conf.rules) |->
                               [conf.rules[i] EXCEPT !.passed = Undefined]]]

\* the least element of the set of naturals s, or d when s is empty
LeastOr(s, d) ==
    IF s = {} THEN d ELSE CHOOSE i \in s : \A k \in s : i <= k

\* the first rule whose fn throws for j, or Len(rules) + 1 when none does
FirstThrow(rules, j) ==
    LeastOr({i \in 1..Len(rules) : CallFn(rules[i].fn, j) = TypeError},
            Len(rules) + 1)

\* the iteration of processRules that ends at rule stop: the rules before
\* stop carry the raw result of their fn, the rest are as they were
processRulesUpTo(rules, j, stop) ==
    [rules |-> [i \in 1..Len(rules) |->
                  IF i < stop
                  THEN [rules[i] EXCEPT !.passed = CallFn(rules[i].fn, j)]
                  ELSE rules[i]],
     calls |-> [i \in 1..(IF stop <= Len(rules) THEN stop ELSE Len(rules)) |->
                  rules[i].fn],
     threw |-> stop <= Len(rules)]

\* rules-util.js processRules: invokes each rule's fn in declaration order
\* and stores the raw result on the rule object; a throwing predicate ends
\* the iteration
processRules(conf, j) ==
    processRulesUpTo(conf.rules, j, FirstThrow(conf.rules, j))

\* what module.exports yields once processRules produced p
examineProcessed(conf, p) ==
    [conf  |-> [conf EXCEPT !.rules = p.rules],
     ret   |-> IF p.threw THEN TypeError ELSE "rulesConf",
     calls |-> p.calls]

\* variant: the missing-manifest branch returns rulesConf without addSkipped
examine_noAddSkipped(conf, j) ==
    IF ~j.exists
    THEN [conf |-> conf, ret |-> "rulesConf", calls |-> <<>>]
    ELSE examineProcessed(conf, processRules(conf, j))

\* module.exports: one invocation against the registry conf with the
\* manifest j; yields the registry afterwards, how the call ended and the
\* predicates it invoked
examine(conf, j) ==
    IF ~j.exists
    THEN [conf |-> addSkipped(conf), ret |-> "rulesConf", calls |-> <<>>]
    ELSE examineProcessed(conf, processRules(conf, j))
----------------------------------------------------------------------------
(* Manifests *)

\* "^3.0.0"
S_caret300 ==
    <<"^", "3", ".", "0", ".", "0">>

\* "^2.0.0"
S_caret200 ==
    <<"^", "2", ".", "0", ".", "0">>

\* "3.0.0"
S_300 ==
    <<"3", ".", "0", ".", "0">>

\* "^1.0.0"
S_caret100 ==
    <<"^", "1", ".", "0", ".", "0">>

\* "^0.2.0"
S_caret020 ==
    <<"^", "0", ".", "2", ".", "0">>

\* "^1.7.0"
S_caret170 ==
    <<"^", "1", ".", "7", ".", "0">>

\* "^1.3.0"
S_caret130 ==
    <<"^", "1", ".", "3", ".", "0">>

\* "^1.1.0"
S_caret110 ==
    <<"^", "1", ".", "1", ".", "0">>

\* "~1.0.2"
S_tilde102 ==
    <<"~", "1", ".", "0", ".", "2">>

\* "^0.13.0"
S_caret0130 ==
    <<"^", "0", ".", "1", "3", ".", "0">>

\* "git+ssh://git@stash.mrgreen.zone/gfp/x.git"
S_stashSsh ==
    <<"g", "i", "t", "+", "s", "s", "h", ":", "/", "/", "g", "i", "t", "@", "s", "t", "a", "s", "h", ".", "m", "r", "g", "r", "e", "e", "n", ".", "z", "o", "n", "e", "/", "g", "f", "p", "/", "x", ".", "g", "i", "t">>

\* "https://stash.mrgreen.zone/gfp/x.git"
S_stashHttps ==
    <<"h", "t", "t", "p", "s", ":", "/", "/", "s", "t", "a", "s", "h", ".", "m", "r", "g", "r", "e", "e", "n", ".", "z", "o", "n", "e", "/", "g", "f", "p", "/", "x", ".", "g", "i", "t">>

\* "eslint *.js"
S_eslint ==
    <<"e", "s", "l", "i", "n", "t", " ", "*", ".", "j", "s">>

\* "npm run lint"
S_runLint ==
    <<"n", "p", "m", " ", "r", "u", "n", " ", "l", "i", "n", "t">>

\* "gfp-doctor -s"
S_gfpDoctor ==
    <<"g", "f", "p", "-", "d", "o", "c", "t", "o", "r", " ", "-", "s">>

\* "echo ok"
S_echo ==
    <<"e", "c", "h", "o", " ", "o", "k">>

DepKeys ==
    {"gfp-eslint-config", "eslint-config-gfp", "angular-module-no-deps",
     "documentation", "phantomjs", "phantomjs-prebuilt",
     "karma-phantomjs-launcher", "husky", "require-polyfill",
     "karma", "karma-coverage", "karma-jasmine"}

ScriptKeys ==
    {"lint", "prepush", "postinstall"}

\* the values a generated manifest may declare for a key
ValuesOf(key) ==
    CASE key = "gfp-eslint-config"        -> {S_stashSsh}
      [] key = "eslint-config-gfp"        -> {S_caret300, S_caret200, S_300}
      [] key = "angular-module-no-deps"   -> {S_stashSsh, S_stashHttps, S_caret100}
      [] key = "documentation"            -> {S_caret300}
      [] key = "phantomjs"                -> {S_caret130}
      [] key = "phantomjs-prebuilt"       -> {S_caret200}
      [] key = "karma-phantomjs-launcher" -> {S_caret100, S_caret020}
      [] key = "husky"                    -> {S_caret0130}
      [] key = "require-polyfill"         -> {S_stashSsh, S_stashHttps, S_caret100}
      [] key = "karma"                    -> {S_caret170, S_caret130}
      [] key = "karma-coverage"           -> {S_caret110, S_tilde102}
      [] key = "karma-jasmine"            -> {S_caret110, S_caret100}
      [] key = "lint"                     -> {S_eslint}
      [] key = "prepush"                  -> {S_runLint}
      [] key = "postinstall"              -> {S_gfpDoctor, S_echo}

AllValues ==
    UNION {ValuesOf(k) : k \in DepKeys \cup ScriptKeys}

\* the objects over keys that hold at most n entries
Objects(keys, n) ==
    UNION {{o \in [ks -> AllValues] : \A k \in ks : o[k] \in ValuesOf(k)} :
              ks \in {s \in SUBSET keys : Cardinality(s) <= n}}

\* no package.json at packagePath
NoManifest ==
    [exists |-> FALSE, hasDev |-> FALSE, dev |-> <<>>,
     hasScripts |-> FALSE, scripts |-> <<>>]

Manifest(hasDev, dev, hasScripts, scripts) ==
    [exists |-> TRUE, hasDev |-> hasDev, dev |-> dev,
     hasScripts |-> hasScripts, scripts |-> scripts]

\* the parsed manifests with at most n entries in all: devDependencies and
\* scripts are each absent or an object
Docs(n) ==
    LET devs    == {<<FALSE, <<>>>>} \cup {<<TRUE, o>> : o \in Objects(DepKeys, n)}
        scripts == {<<FALSE, <<>>>>} \cup {<<TRUE, o>> : o \in Objects(ScriptKeys, n)}
    IN  {Manifest(d[1], d[2], s[1], s[2]) :
            <<d, s>> \in {p \in devs \X scripts :
                Cardinality(DOMAIN p[1][2]) + Cardinality(DOMAIN p[2][2]) <= n}}

\* the manifests the runner is invoked on: the specification's scenarios and
\* their neighbours
RunDocs ==
    { Manifest(FALSE, <<>>, FALSE, <<>>),
      Manifest(FALSE, <<>>, TRUE, [k \in {"lint"} |-> S_eslint]),
      Manifest(FALSE, <<>>, TRUE, [k \in {"postinstall"} |-> S_gfpDoctor]),
      Manifest(FALSE, <<>>, TRUE, <<>>),
      Manifest(TRUE, <<>>, FALSE, <<>>),
      Manifest(TRUE, [k \in {"eslint-config-gfp"} |-> S_caret300], FALSE, <<>>),
      Manifest(TRUE, [k \in {"eslint-config-gfp"} |-> S_caret200], FALSE, <<>>),
      Manifest(TRUE, [k \in {"phantomjs"} |-> V_100], FALSE, <<>>),
      Manifest(TRUE, [k \in {"phantomjs-prebuilt"} |-> S_caret200], FALSE, <<>>),
      Manifest(TRUE, [k \in {"angular-module-no-deps"} |-> S_stashSsh], FALSE, <<>>),
      Manifest(TRUE, [k \in {"require-polyfill"} |-> S_stashSsh], FALSE, <<>>),
      Manifest(TRUE, [k \in {"gfp-eslint-config"} |-> S_stashSsh], FALSE, <<>>),
      Manifest(TRUE, [k \in {"karma-phantomjs-launcher"} |-> S_caret020], FALSE, <<>>),
      Manifest(TRUE, [k \in {"karma"} |-> S_caret130], FALSE, <<>>),
      Manifest(TRUE, [k \in {"karma-coverage"} |-> S_caret110], FALSE, <<>>),
      Manifest(TRUE, [k \in {"karma-jasmine"} |-> S_caret100], FALSE, <<>>),
      Manifest(TRUE, [k \in {"require-polyfill"} |-> S_caret100],
               TRUE, [k \in {"postinstall"} |-> S_echo]),
      Manifest(TRUE, [k \in {"husky"} |-> S_caret0130],
               TRUE, [k \in {"prepush"} |-> S_runLint]),
      Manifest(TRUE, [k \in {"documentation"} |-> S_caret300],
               TRUE, [k \in {"lint"} |-> S_eslint]) }

----------------------------------------------------------------------------
(* The runner: any sequence of invocations in one process *)

Init ==
    /\ rulesConf = InitialRulesConf
    /\ json = NoManifest
    /\ ret = "none"
    /\ calls = <<>>
    /\ pc = "runner"
    /\ out = <<>>

\* module.exports(options) when packagePath holds no file
ExamineMissing ==
    \E e \in {examine(rulesConf, NoManifest)} :
        /\ rulesConf' = e.conf
        /\ ret' = e.ret
        /\ calls' = e.calls
        /\ json' = NoManifest
        /\ UNCHANGED <<pc, out>>

\* module.exports(options) when packagePath holds a manifest
ExaminePresent ==
    \E j \in RunDocs :
        \E e \in {examine(rulesConf, j)} :
            /\ rulesConf' = e.conf
            /\ ret' = e.ret
            /\ calls' = e.calls
            /\ json' = j
            /\ UNCHANGED <<pc, out>>

Next ==
    ExamineMissing \/ ExaminePresent

Spec ==
    Init /\ [][Next]_vars

----------------------------------------------------------------------------
(* The predicates alone: each applied to every generated manifest *)

InitFn ==
    /\ rulesConf = InitialRulesConf
    /\ json \in Docs(MaxKeys)
    /\ ret = "none"
    /\ calls = <<>>
    /\ pc = "input"
    /\ out = <<>>

ApplyPredicates ==
    /\ pc = "input"
    /\ out' = [i \in 1..Len(RuleFns) |-> CallFn(RuleFns[i], json)]
    /\ pc' = "applied"
    /\ UNCHANGED <<rulesConf, json, ret, calls>>

NextFn ==
    ApplyPredicates

SpecFn ==
    InitFn /\ [][NextFn]_vars

----------------------------------------------------------------------------
(* Vocabulary of the properties *)

\* position of a predicate in the registry
Idx(fn) ==
    CHOOSE i \in 1..Len(RuleFns) : RuleFns[i] = fn

\* what the predicate fn produced for json
Out(fn) ==
    out[Idx(fn)]

\* json.devDependencies exists and holds key
HasDep(key) ==
    json.hasDev /\ key \in DOMAIN json.dev

\* json.scripts exists and holds key
HasScript(key) ==
    json.hasScripts /\ key \in DOMAIN json.scripts

\* s contains the text n
Contains(s, n) ==
    \E i \in 1..(Len(s) - Len(n) + 1) : SubSeq(s, i, i + Len(n) - 1) = n

\* what a report shows: the skipped flag and the outcome of each rule
Report(conf) ==
    [skipped  |-> conf.skipped,
     outcomes |-> [i \in 1..Len(conf.rules) |-> conf.rules[i].passed]]

\* the versions of the reference universe
Versions ==
    (0..MaxPart) \X (0..MaxPart) \X (0..MaxPart)

\* version is strictly below every version of the universe the range matches
BelowEveryMatch(version, range) ==
    LET r == ParseRange(range)
    IN  IF \A v \in Versions : (VLe(r.lo, v) /\ VLt(v, r.hi)) => VLt(version, v)
        THEN TRUE_ ELSE FALSE_

\* the document lacks every entry the predicate fn inspects
Lacks(fn) ==
    CASE fn = "notUsingStashGfpEslintConfig"     -> ~HasDep("gfp-eslint-config")
      [] fn = "missingEslintConfigGfp"           -> ~HasDep("eslint-config-gfp")
      [] fn = "notUsingStashAngularModuleNoDeps" -> ~HasDep("angular-module-no-deps")
      [] fn = "usingDocumentationJs"             -> ~HasDep("documentation")
      [] fn = "hasNpmLintScript"                 -> ~HasScript("lint")
      [] fn = "shouldUsePhantomjsPrebuilt"       ->
             ~HasDep("phantomjs") /\ ~HasDep("phantomjs-prebuilt")
      [] fn = "shouldUsePhantomjsLauncher1"      -> ~HasDep("karma-phantomjs-launcher")
      [] fn = "shouldUsePrepushHooks"            ->
             ~HasDep("husky") /\ ~HasScript("prepush")
      [] fn = "shouldUsePublicRequirePolyfill"   -> ~HasDep("require-polyfill")
      [] fn = "shouldUseEslintConfigGfp300"      -> ~HasDep("eslint-config-gfp")
      [] fn = "shouldRunGfpDoctorPostInstall"    -> ~HasScript("postinstall")
      [] fn = "shouldUseKarma170"                -> ~HasDep("karma")
      [] fn = "shouldUseKarmaCoverage110"        -> ~HasDep("karma-coverage")
      [] fn = "shouldUseKarmaJasmine110"         -> ~HasDep("karma-jasmine")

----------------------------------------------------------------------------
(* Properties *)

\* C1: an invocation that finds no manifest returns the rule set flagged
\* skipped (skipped = true) and has invoked none of the 14 predicates.
C1_MissingManifestSkips ==
    (ret # "none" /\ ~json.exists) =>
        /\ ret = "rulesConf"
        /\ rulesConf.skipped = TRUE_
        /\ calls = <<>>

\* C1 witness: an invocation found no manifest and returned the skipped set
C1_Witness ==
    /\ ret = "rulesConf"
    /\ ~json.exists
    /\ rulesConf.skipped = TRUE_
    /\ calls = <<>>

\* C2: after any sequence of invocations the returned rule set has no rule
\* with a pass or fail outcome if skipped is true, and has every rule
\* evaluated exactly once in that invocation if skipped is not true.
C2_SkippedOrEvaluatedOnce ==
    ret = "rulesConf" =>
        IF rulesConf.skipped = TRUE_
        THEN \A i \in 1..Len(rulesConf.rules) :
                 rulesConf.rules[i].passed \notin {TRUE_, FALSE_}
        ELSE \A i \in 1..Len(RuleFns) :
                 Cardinality({k \in 1..Len(calls) : calls[k] = RuleFns[i]}) = 1

\* C3: the report an invocation returns for a document (or its absence) is
\* the report a fresh process returns for it: same skipped flag, same
\* outcomes, whatever invocations came before.
C3_ReportIndependentOfHistory ==
    ret = "rulesConf" =>
        Report(rulesConf) = Report(examine(InitialRulesConf, json).conf)

\* C4: an invocation that finds a manifest invokes the 14 predicates in
\* declaration order, each exactly once, and the rules of the registry keep
\* the 14 rules in declaration order.
C4_AllRulesInDeclarationOrder ==
    (ret # "none" /\ json.exists) =>
        /\ calls = RuleFns
        /\ [i \in 1..Len(rulesConf.rules) |-> rulesConf.rules[i].fn] = RuleFns

\* C5: no predicate throws, whatever entries the document has or lacks.
C5_NoPredicateThrows ==
    pc = "applied" => \A i \in 1..Len(RuleFns) : out[i] # TypeError

\* C6: a predicate applied to a document lacking the entry it inspects
\* produces indeterminate, except notUsingStashAngularModuleNoDeps and
\* shouldUsePublicRequirePolyfill, which produce true.
C6_LackingEntryIsIndeterminate ==
    pc = "applied" =>
        \A i \in 1..Len(RuleFns) :
            Lacks(RuleFns[i]) =>
                out[i] = IF RuleFns[i] \in {"notUsingStashAngularModuleNoDeps",
                                            "shouldUsePublicRequirePolyfill"}
                         THEN TRUE_ ELSE Undefined

\* C7: notUsingStashAngularModuleNoDeps produces true when the
\* angular-module-no-deps entry is absent (also when devDependencies is),
\* true when its version string lacks "stash.mrgreen.zone", false when it
\* contains it.
C7_AngularModuleNoDepsThreeWay ==
    pc = "applied" =>
        Out("notUsingStashAngularModuleNoDeps") =
            IF ~HasDep("angular-module-no-deps") THEN TRUE_
            ELSE IF Contains(json.dev["angular-module-no-deps"], N_stash) THEN FALSE_
            ELSE TRUE_

\* C8: shouldUsePhantomjsPrebuilt produces false whenever devDependencies
\* holds phantomjs (also next to phantomjs-prebuilt), true when it holds
\* phantomjs-prebuilt and not phantomjs, and indeterminate otherwise.
C8_PhantomjsPrebuilt ==
    pc = "applied" =>
        Out("shouldUsePhantomjsPrebuilt") =
            IF HasDep("phantomjs") THEN FALSE_
            ELSE IF HasDep("phantomjs-prebuilt") THEN TRUE_
            ELSE Undefined

\* C8 witness: both packages declared, and the predicate produced false
C8_Witness ==
    /\ pc = "applied"
    /\ HasDep("phantomjs")
    /\ HasDep("phantomjs-prebuilt")
    /\ Out("shouldUsePhantomjsPrebuilt") = FALSE_

\* C9: shouldUsePublicRequirePolyfill is never indeterminate: it produces
\* false exactly when devDependencies holds require-polyfill with a version
\* string containing "ssh://", and true in every other case.
C9_RequirePolyfill ==
    pc = "applied" =>
        /\ Out("shouldUsePublicRequirePolyfill") \in {TRUE_, FALSE_}
        /\ Out("shouldUsePublicRequirePolyfill") = FALSE_ <=>
               /\ HasDep("require-polyfill")
               /\ Contains(json.dev["require-polyfill"], N_ssh)

\* C9 witness: no devDependencies at all, and the predicate produced true
C9_Witness ==
    /\ pc = "applied"
    /\ ~json.hasDev
    /\ Out("shouldUsePublicRequirePolyfill") = TRUE_

\* C10: shouldUseEslintConfigGfp300 is indeterminate when eslint-config-gfp
\* is not declared, and otherwise says whether 2.9.9 is strictly below
\* every version the declared range matches: true for "^3.0.0" (where
\* missingEslintConfigGfp passes too), false for "^2.0.0".
C10_EslintConfigGfp300 ==
    pc = "applied" =>
        IF ~HasDep("eslint-config-gfp")
        THEN Out("shouldUseEslintConfigGfp300") = Undefined
        ELSE LET range == json.dev["eslint-config-gfp"]
             IN  /\ Out("shouldUseEslintConfigGfp300") =
                        BelowEveryMatch(<<2, 9, 9>>, range)
                 /\ range = <<"^", "3", ".", "0", ".", "0">> =>
                        /\ Out("shouldUseEslintConfigGfp300") = TRUE_
                        /\ Out("missingEslintConfigGfp") = TRUE_
                 /\ range = <<"^", "2", ".", "0", ".", "0">> =>
                        Out("shouldUseEslintConfigGfp300") = FALSE_

\* C10 witness: "^3.0.0" declared, and both rules passed
C10_Witness ==
    /\ pc = "applied"
    /\ HasDep("eslint-config-gfp")
    /\ json.dev["eslint-config-gfp"] = <<"^", "3", ".", "0", ".", "0">>
    /\ Out("shouldUseEslintConfigGfp300") = TRUE_
    /\ Out("missingEslintConfigGfp") = TRUE_

====
